---- MODULE Spec2Model ----
(***************************************************************************)
(* The ERC-1155 ledger of contracts/erc1155: the Erc1155 storage struct    *)
(* (erc1155.rs) and the My1155 entrypoint that exposes it (lib.rs).        *)
(*                                                                         *)
(* The functions of Erc1155 are operators over the two storage mappings;   *)
(* each returns the mappings as the function leaves them, the value it     *)
(* returns and the events it logs.  The actions are the calls a            *)
(* transaction can make: the public methods of My1155, whose Err return    *)
(* reverts the transaction, and the two pub update primitives of Erc1155   *)
(* that code layered on the struct (mint, burn) calls directly.            *)
(***************************************************************************)
EXTENDS Integers, Sequences, FiniteSets, TLC

\* Address::ZERO, the null account.
Null == 0

\* The accounts that send transactions, and every address a call can name.
Accounts == {1, 2}
Address == {Null} \cup Accounts

\* The token ids in use.
Ids == {1, 2}

\* The largest Quantity: stands for U256::MAX = 2^256 - 1.
MaxQuantity == 2

\* The longest ids / values / accounts vector of a call.
MaxLen == 2

Quantity == 0..MaxQuantity

\* The number of values of a Quantity: stands for 2^256.
Modulus == MaxQuantity + 1

SeqsUpTo(S, n) == UNION {[1..k -> S] : k \in 0..n}

\* The values vectors a batch call is tried with for the vector ids: every
\* vector of the same length, and one vector of each other length.
BatchValues(ids) ==
    [1..Len(ids) -> Quantity]
        \cup {v \in SeqsUpTo({1}, MaxLen) : Len(v) # Len(ids)}

VARIABLES
    balances,            \* mapping(uint256 => mapping(address => uint256))
    operator_approvals,  \* mapping(address => mapping(address => bool))
    committed,           \* the two mappings as the last finished transaction left them
    pc,                  \* "idle": no call in progress; "returned": a call has returned
    call,                \* the call of the current transaction: method, msg::sender, arguments
    result,              \* what the call returned: Ok (with the value) or the error
    logs                 \* the events the transaction logged (evm::log), in order

vars == <<balances, operator_approvals, committed, pc, call, result, logs>>

(***************************************************************************)
(* Events and errors (the sol! block).                                     *)
(***************************************************************************)
TransferSingle(operator, from, to, id, value) ==
    [name |-> "TransferSingle", operator |-> operator, from |-> from, to |-> to,
     id |-> id, value |-> value]

TransferBatch(operator, from, to, ids, values) ==
    [name |-> "TransferBatch", operator |-> operator, from |-> from, to |-> to,
     ids |-> ids, values |-> values]

ApprovalForAll(account, operator, approved) ==
    [name |-> "ApprovalForAll", account |-> account, operator |-> operator,
     approved |-> approved]

ERC1155InsufficientBalance(sender, balance, needed, id) ==
    [kind |-> "InsufficientBalance", sender |-> sender, balance |-> balance,
     needed |-> needed, id |-> id]

ERC1155InvalidReceiver(receiver) ==
    [kind |-> "InvalidReceiver", receiver |-> receiver]

ERC1155InvalidOperator(operator) ==
    [kind |-> "InvalidOperator", operator |-> operator]

ERC1155InvalidArrayLength(idsLength, valuesLength) ==
    [kind |-> "InvalidArrayLength", idsLength |-> idsLength, valuesLength |-> valuesLength]

ERC1155MissingApprovalForAll(operator, owner) ==
    [kind |-> "MissingApprovalForAll", operator |-> operator, owner |-> owner]

\* values[i] with i past the end of values: the index panics and the call traps.
IndexPanic == [kind |-> "Panic"]

Ok == [kind |-> "Ok"]

OkValue(v) == [kind |-> "Ok", value |-> v]

\* What a function of Erc1155 leaves behind: the storage as written so far,
\* the returned value and the events logged.
Outcome(ret, bal, appr, evs) ==
    [ret |-> ret, balances |-> bal, operator_approvals |-> appr, logs |-> evs]

IsOk(r) == r.ret.kind = "Ok"

(***************************************************************************)
(* U256 arithmetic.  `+` and `-` of alloy_primitives::U256 are the         *)
(* wrapping operations: they do not trap and do not return an error.       *)
(***************************************************************************)
U256Add(a, b) == (a + b) % Modulus

U256Sub(a, b) == (a - b) % Modulus

(***************************************************************************)
(* impl Erc1155                                                            *)
(***************************************************************************)
balance_of(bal, account, id) == bal[id][account]

\* balance_of_batch reporting the two lengths the other way round
\* (sensitivity of C13).
balance_of_batch_swapped(bal, appr, accounts, ids) ==
    IF Len(accounts) # Len(ids)
    THEN Outcome(ERC1155InvalidArrayLength(Len(accounts), Len(ids)), bal, appr, <<>>)
    ELSE Outcome(OkValue([i \in 1..Len(accounts) |-> balance_of(bal, accounts[i], ids[i])]),
                 bal, appr, <<>>)

balance_of_batch(bal, appr, accounts, ids) ==
    IF Len(accounts) # Len(ids)
    THEN Outcome(ERC1155InvalidArrayLength(Len(ids), Len(accounts)), bal, appr, <<>>)
    ELSE Outcome(OkValue([i \in 1..Len(accounts) |-> balance_of(bal, accounts[i], ids[i])]),
                 bal, appr, <<>>)

\* set_approval_for_all without the owner == operator check (sensitivity of C6).
set_approval_for_all_unchecked(bal, appr, sender, operator, approved) ==
    Outcome(Ok, bal, [appr EXCEPT ![sender][operator] = approved],
            <<ApprovalForAll(sender, operator, approved)>>)

\* set_approval_for_all returning early, with no write and no event, when the
\* entry already holds `approved` (sensitivity of C15).
set_approval_for_all_quiet(bal, appr, sender, operator, approved) ==
    IF sender = operator
    THEN Outcome(ERC1155InvalidOperator(operator), bal, appr, <<>>)
    ELSE IF appr[sender][operator] = approved
    THEN Outcome(Ok, bal, appr, <<>>)
    ELSE Outcome(Ok, bal, [appr EXCEPT ![sender][operator] = approved],
                 <<ApprovalForAll(sender, operator, approved)>>)

\* set_approval_for_all that grants but never clears: a revocation leaves a
\* granted entry true (sensitivity of C18).
set_approval_for_all_grant_only(bal, appr, sender, operator, approved) ==
    IF sender = operator
    THEN Outcome(ERC1155InvalidOperator(operator), bal, appr, <<>>)
    ELSE Outcome(Ok, bal, [appr EXCEPT ![sender][operator] = @ \/ approved],
                 <<ApprovalForAll(sender, operator, approved)>>)

\* set_approval_for_all writing the entry of the named account for the
\* caller: a caller grants itself approval over another account (sensitivity
\* of C19).
set_approval_for_all_over_other(bal, appr, sender, operator, approved) ==
    IF sender = operator
    THEN Outcome(ERC1155InvalidOperator(operator), bal, appr, <<>>)
    ELSE Outcome(Ok, bal, [appr EXCEPT ![operator][sender] = approved],
                 <<ApprovalForAll(sender, operator, approved)>>)

set_approval_for_all(bal, appr, sender, operator, approved) ==
    LET owner == sender IN
    IF owner = operator
    THEN Outcome(ERC1155InvalidOperator(operator), bal, appr, <<>>)
    ELSE Outcome(Ok, bal, [appr EXCEPT ![owner][operator] = approved],
                 <<ApprovalForAll(owner, operator, approved)>>)

\* is_approved_for_all reading the entry the wrong way round (sensitivity of C2).
is_approved_for_all_swapped(appr, account, operator) == appr[operator][account]

is_approved_for_all(appr, account, operator) == appr[account][operator]

\* The debit of one (id, value) pair: the `if !from.is_zero()` block.
DebitFrom(bal, from, id, value) ==
    IF from # Null
    THEN [bal EXCEPT ![id][from] = U256Sub(bal[id][from], value)]
    ELSE bal

\* The credit of one (id, value) pair: the `if !to.is_zero()` block.
CreditTo(bal, to, id, value) ==
    IF to # Null
    THEN [bal EXCEPT ![id][to] = U256Add(bal[id][to], value)]
    ELSE bal

\* _update_single refusing a value the balance only just covers: `<=` for the
\* `<` of the balance check (sensitivity of C12).
_update_single_strict(bal, appr, sender, from, to, id, value) ==
    IF from # Null /\ bal[id][from] <= value
    THEN Outcome(ERC1155InsufficientBalance(from, bal[id][from], value, id), bal, appr, <<>>)
    ELSE Outcome(Ok, CreditTo(DebitFrom(bal, from, id, value), to, id, value), appr,
                 <<TransferSingle(sender, from, to, id, value)>>)

\* _update_single checking the balance of `from` even when `from` is the null
\* account (sensitivity of C16).
_update_single_checks_null(bal, appr, sender, from, to, id, value) ==
    IF bal[id][from] < value
    THEN Outcome(ERC1155InsufficientBalance(from, bal[id][from], value, id), bal, appr, <<>>)
    ELSE Outcome(Ok, CreditTo(DebitFrom(bal, from, id, value), to, id, value), appr,
                 <<TransferSingle(sender, from, to, id, value)>>)

\* _update_single reading both balances before it writes either: with
\* from == to the credit overwrites the debit (sensitivity of C20).
_update_single_stale_credit(bal, appr, sender, from, to, id, value) ==
    IF from # Null /\ bal[id][from] < value
    THEN Outcome(ERC1155InsufficientBalance(from, bal[id][from], value, id), bal, appr, <<>>)
    ELSE LET debited == DebitFrom(bal, from, id, value)
         IN  Outcome(Ok,
                     IF to # Null
                     THEN [debited EXCEPT ![id][to] = U256Add(bal[id][to], value)]
                     ELSE debited,
                     appr, <<TransferSingle(sender, from, to, id, value)>>)

_update_single(bal, appr, sender, from, to, id, value) ==
    IF from # Null /\ bal[id][from] < value
    THEN Outcome(ERC1155InsufficientBalance(from, bal[id][from], value, id), bal, appr, <<>>)
    ELSE Outcome(Ok, CreditTo(DebitFrom(bal, from, id, value), to, id, value), appr,
                 <<TransferSingle(sender, from, to, id, value)>>)

\* The pairs from index i on applied without any balance check.
RECURSIVE ApplyUnchecked(_, _, _, _, _, _)
ApplyUnchecked(bal, from, to, ids, values, i) ==
    IF i > Len(ids) \/ i > Len(values) THEN bal
    ELSE ApplyUnchecked(CreditTo(DebitFrom(bal, from, ids[i], values[i]), to, ids[i], values[i]),
                        from, to, ids, values, i + 1)

\* A loop that checks every pair against the balances at its start and only
\* then writes: duplicate ids are not seen cumulatively (sensitivity of C8).
BatchLoopSnapshot(bal, from, to, ids, values, i) ==
    LET short == {k \in i..Len(ids) : k <= Len(values) /\ from # Null
                                       /\ bal[ids[k]][from] < values[k]}
        k == CHOOSE x \in short : \A y \in short : x <= y
    IN  IF short # {}
        THEN [ret |-> ERC1155InsufficientBalance(from, bal[ids[k]][from], values[k], ids[k]),
              balances |-> bal]
        ELSE IF Len(ids) > Len(values) THEN [ret |-> IndexPanic, balances |-> bal]
        ELSE [ret |-> Ok, balances |-> ApplyUnchecked(bal, from, to, ids, values, i)]

\* The loop of _update_batch from index i on (1-based), on the storage bal:
\* the storage it leaves and how it ended.
RECURSIVE BatchLoop(_, _, _, _, _, _)
BatchLoop(bal, from, to, ids, values, i) ==
    IF i > Len(ids) THEN [ret |-> Ok, balances |-> bal]
    ELSE IF i > Len(values) THEN [ret |-> IndexPanic, balances |-> bal]
    ELSE IF from # Null /\ bal[ids[i]][from] < values[i]
    THEN [ret |-> ERC1155InsufficientBalance(from, bal[ids[i]][from], values[i], ids[i]),
          balances |-> bal]
    ELSE BatchLoop(CreditTo(DebitFrom(bal, from, ids[i], values[i]), to, ids[i], values[i]),
                   from, to, ids, values, i + 1)

\* _update_batch logging one TransferSingle event per pair in place of the
\* one TransferBatch event (sensitivity of C14).
_update_batch_per_pair(bal, appr, sender, from, to, ids, values) ==
    LET l == BatchLoop(bal, from, to, ids, values, 1)
    IN  IF l.ret.kind = "Ok"
        THEN Outcome(Ok, l.balances, appr,
                     [i \in 1..Len(ids) |-> TransferSingle(sender, from, to, ids[i], values[i])])
        ELSE Outcome(l.ret, l.balances, appr, <<>>)

_update_batch(bal, appr, sender, from, to, ids, values) ==
    LET operator == sender
        l == BatchLoop(bal, from, to, ids, values, 1)
    IN  IF l.ret.kind = "Ok"
        THEN Outcome(Ok, l.balances, appr, <<TransferBatch(operator, from, to, ids, values)>>)
        ELSE Outcome(l.ret, l.balances, appr, <<>>)

\* safe_transfer_from without the authorization check: any caller can name
\* any `from`, the null account included (sensitivity of C17).
safe_transfer_from_unauthenticated(bal, appr, sender, from, to, id, value) ==
    IF to = Null
    THEN Outcome(ERC1155InvalidReceiver(Null), bal, appr, <<>>)
    ELSE _update_single(bal, appr, sender, from, to, id, value)

safe_transfer_from(bal, appr, sender, from, to, id, value) ==
    LET operator == sender IN
    IF from # operator /\ ~is_approved_for_all(appr, from, operator)
    THEN Outcome(ERC1155MissingApprovalForAll(operator, from), bal, appr, <<>>)
    ELSE IF to = Null
    THEN Outcome(ERC1155InvalidReceiver(Null), bal, appr, <<>>)
    ELSE _update_single(bal, appr, sender, from, to, id, value)

\* safe_batch_transfer_from with the receiver check ahead of the
\* authorization check (sensitivity of C10).
safe_batch_transfer_from_receiver_first(bal, appr, sender, from, to, ids, values) ==
    IF to = Null
    THEN Outcome(ERC1155InvalidReceiver(Null), bal, appr, <<>>)
    ELSE IF from # sender /\ ~is_approved_for_all(appr, from, sender)
    THEN Outcome(ERC1155MissingApprovalForAll(sender, from), bal, appr, <<>>)
    ELSE IF Len(ids) # Len(values)
    THEN Outcome(ERC1155InvalidArrayLength(Len(ids), Len(values)), bal, appr, <<>>)
    ELSE _update_batch(bal, appr, sender, from, to, ids, values)

safe_batch_transfer_from(bal, appr, sender, from, to, ids, values) ==
    LET operator == sender IN
    IF from # operator /\ ~is_approved_for_all(appr, from, operator)
    THEN Outcome(ERC1155MissingApprovalForAll(operator, from), bal, appr, <<>>)
    ELSE IF to = Null
    THEN Outcome(ERC1155InvalidReceiver(Null), bal, appr, <<>>)
    ELSE IF Len(ids) # Len(values)
    THEN Outcome(ERC1155InvalidArrayLength(Len(ids), Len(values)), bal, appr, <<>>)
    ELSE _update_batch(bal, appr, sender, from, to, ids, values)

(***************************************************************************)
(* The call boundary.                                                      *)
(***************************************************************************)
Storage(bal, appr) == [balances |-> bal, operator_approvals |-> appr]

\* An entrypoint whose failed call keeps the writes made before the error
\* (sensitivity of C3).
EntrypointNoRevert(r, c) == r

\* A public method of My1155 returns Result<_, Vec<u8>>: on Err (or a trap)
\* the transaction reverts, so the storage is again the committed one and
\* no event is logged; on Ok the writes and the events are kept.
Entrypoint(r, c) ==
    IF IsOk(r) THEN r ELSE Outcome(r.ret, c.balances, c.operator_approvals, <<>>)

\* A direct call of a pub function of Erc1155 by code layered on the struct:
\* the caller sees the storage as the function left it.  Only a trap
\* reverts by itself.
Direct(r, c) ==
    IF r.ret.kind = "Panic" THEN Outcome(r.ret, c.balances, c.operator_approvals, <<>>) ELSE r

\* The call c returns with outcome r.
Returns(c, r) ==
    /\ pc' = "returned"
    /\ call' = c
    /\ result' = r.ret
    /\ logs' = r.logs
    /\ balances' = r.balances
    /\ operator_approvals' = r.operator_approvals
    /\ UNCHANGED committed

NoCall == [op |-> "none"]

NoResult == [kind |-> "none"]

Init ==
    /\ balances = [id \in Ids |-> [a \in Address |-> 0]]
    /\ operator_approvals = [o \in Address |-> [a \in Address |-> FALSE]]
    /\ committed = Storage(balances, operator_approvals)
    /\ pc = "idle"
    /\ call = NoCall
    /\ result = NoResult
    /\ logs = <<>>

(***************************************************************************)
(* #[public] impl My1155                                                   *)
(***************************************************************************)
BalanceOfBatch(accounts, ids) ==
    Returns([op |-> "balance_of_batch", accounts |-> accounts, ids |-> ids],
            Entrypoint(balance_of_batch(balances, operator_approvals, accounts, ids),
                       committed))

SetApprovalForAll(sender, operator, approved) ==
    Returns([op |-> "set_approval_for_all", sender |-> sender, operator |-> operator,
             approved |-> approved],
            Entrypoint(set_approval_for_all(balances, operator_approvals, sender,
                                            operator, approved),
                       committed))

SafeTransferFrom(sender, from, to, id, value) ==
    Returns([op |-> "safe_transfer_from", sender |-> sender, from |-> from, to |-> to,
             id |-> id, value |-> value],
            Entrypoint(safe_transfer_from(balances, operator_approvals, sender,
                                          from, to, id, value),
                       committed))

SafeBatchTransferFrom(sender, from, to, ids, values) ==
    Returns([op |-> "safe_batch_transfer_from", sender |-> sender, from |-> from,
             to |-> to, ids |-> ids, values |-> values],
            Entrypoint(safe_batch_transfer_from(balances, operator_approvals, sender,
                                                from, to, ids, values),
                       committed))

(***************************************************************************)
(* The update primitives, called directly.  _update_batch is called for    *)
(* what no public method does: a mint (from null), a burn (to null) or     *)
(* both.                                                                   *)
(***************************************************************************)
UpdateSingle(sender, from, to, id, value) ==
    Returns([op |-> "_update_single", sender |-> sender, from |-> from, to |-> to,
             id |-> id, value |-> value],
            Direct(_update_single(balances, operator_approvals, sender, from, to, id, value),
                   committed))

UpdateBatch(sender, from, to, ids, values) ==
    Returns([op |-> "_update_batch", sender |-> sender, from |-> from, to |-> to,
             ids |-> ids, values |-> values],
            Direct(_update_batch(balances, operator_approvals, sender, from, to, ids, values),
                   committed))

\* The transaction ends: the storage it leaves is committed, and its return
\* value and its logs belong to it alone.
Return ==
    /\ pc = "returned"
    /\ pc' = "idle"
    /\ call' = NoCall
    /\ result' = NoResult
    /\ logs' = <<>>
    /\ committed' = Storage(balances, operator_approvals)
    /\ UNCHANGED <<balances, operator_approvals>>

CallBalanceOfBatch ==
    /\ pc = "idle"
    /\ \E accounts \in SeqsUpTo(Address, MaxLen), ids \in SeqsUpTo(Ids, MaxLen) :
        BalanceOfBatch(accounts, ids)

CallSetApprovalForAll ==
    /\ pc = "idle"
    /\ \E sender \in Accounts, operator \in Accounts, approved \in BOOLEAN :
        SetApprovalForAll(sender, operator, approved)

CallSafeTransferFrom ==
    /\ pc = "idle"
    /\ \E sender \in Accounts, from \in Address, to \in Address, id \in Ids, value \in Quantity :
        SafeTransferFrom(sender, from, to, id, value)

CallSafeBatchTransferFrom ==
    /\ pc = "idle"
    /\ \E sender \in Accounts, from \in Address, to \in Address :
         \E ids \in SeqsUpTo(Ids, MaxLen) :
             \E values \in BatchValues(ids) :
                 SafeBatchTransferFrom(sender, from, to, ids, values)

CallUpdateSingle ==
    /\ pc = "idle"
    /\ \E sender \in Accounts, from \in Address, to \in Address, id \in Ids, value \in Quantity :
        UpdateSingle(sender, from, to, id, value)

CallUpdateBatch ==
    /\ pc = "idle"
    /\ \E sender \in Accounts, from \in Address, to \in Address :
         /\ from = Null \/ to = Null
         /\ \E ids \in SeqsUpTo(Ids, MaxLen) :
                \E values \in BatchValues(ids) :
                    UpdateBatch(sender, from, to, ids, values)

Next ==
    \/ CallBalanceOfBatch
    \/ CallSetApprovalForAll
    \/ CallSafeTransferFrom
    \/ CallSafeBatchTransferFrom
    \/ CallUpdateSingle
    \/ CallUpdateBatch
    \/ Return

Spec == Init /\ [][Next]_vars

\* The contract as deployed: #[public] impl My1155 is the whole surface, and
\* it has no method that reaches an update primitive with a null `from`.
NextPublic ==
    \/ CallBalanceOfBatch
    \/ CallSetApprovalForAll
    \/ CallSafeTransferFrom
    \/ CallSafeBatchTransferFrom
    \/ Return

SpecPublic == Init /\ [][NextPublic]_vars

TypeOK ==
    /\ balances \in [Ids -> [Address -> Quantity]]
    /\ operator_approvals \in [Address -> [Address -> BOOLEAN]]
    /\ committed \in [balances : [Ids -> [Address -> Quantity]],
                      operator_approvals : [Address -> [Address -> BOOLEAN]]]
    /\ pc \in {"idle", "returned"}
    /\ pc = "idle" => committed = Storage(balances, operator_approvals)

(***************************************************************************)
(* Properties.  In a state with pc = "returned", `call` is the call that   *)
(* just returned, `committed` the storage before it and balances /         *)
(* operator_approvals the storage after it.                                *)
(***************************************************************************)
Returned(op) == pc = "returned" /\ call.op = op

PublicTransfer ==
    pc = "returned" /\ call.op \in {"safe_transfer_from", "safe_batch_transfer_from"}

Old(id, a) == committed.balances[id][a]

New(id, a) == balances[id][a]

\* The caller of the returned transfer is `from` or one of its approved operators.
Authorized ==
    call.sender = call.from \/ committed.operator_approvals[call.from][call.sender]

RECURSIVE SumBalances(_, _, _)
SumBalances(bal, id, S) ==
    IF S = {} THEN 0
    ELSE LET a == CHOOSE x \in S : TRUE
         IN  bal[id][a] + SumBalances(bal, id, S \ {a})

\* The total supply of id: the sum of its balances over all accounts.
TotalSupply(bal, id) == SumBalances(bal, id, Accounts)

RECURSIVE SumValues(_, _, _, _)
\* The sum of values[j] over the pairs j <= n of the batch that name id.
SumValues(ids, values, id, n) ==
    IF n = 0 THEN 0
    ELSE (IF ids[n] = id THEN values[n] ELSE 0) + SumValues(ids, values, id, n - 1)

\* C1. Conservation: a safeTransferFrom or safeBatchTransferFrom call with
\* non-null from and to, successful or failed, leaves the sum of every id's
\* balances over all accounts as it was before the call (and so does any
\* sequence of such calls).
C1_Conservation ==
    (PublicTransfer /\ call.from # Null /\ call.to # Null)
        => \A id \in Ids : TotalSupply(balances, id) = TotalSupply(committed.balances, id)

C3_AtomicBatchFailure ==
    Returned("safe_batch_transfer_from") =>
        /\ result.kind # "Ok" =>
               /\ balances = committed.balances
               /\ operator_approvals = committed.operator_approvals
        /\ (result.kind = "Ok" /\ call.from # call.to) =>
               \A id \in Ids :
                   New(id, call.from)
                       = Old(id, call.from) - SumValues(call.ids, call.values, id, Len(call.ids))

\* C3 witness: a batch that failed with InsufficientBalance at a pair after
\* the first, whose first pair passed its check and moved a non-zero value.
C3_Witness ==
    /\ Returned("safe_batch_transfer_from")
    /\ result.kind = "InsufficientBalance"
    /\ Len(call.ids) >= 2
    /\ call.from # call.to
    /\ call.values[1] > 0
    /\ Old(call.ids[1], call.from) >= call.values[1]

\* C4. Approve-then-transfer: a safeTransferFrom(A, B, id, v) by a caller C # A
\* with no approval under (A, C) fails with MissingApprovalForAll; a
\* setApprovalForAll(C, true) by A records the approval; and with the approval
\* recorded the same call (B non-null, A holding at least v) succeeds and moves
\* v from A to B.
C4_ApproveThenTransfer ==
    /\ (Returned("safe_transfer_from") /\ call.sender # call.from
           /\ ~committed.operator_approvals[call.from][call.sender])
        => result = ERC1155MissingApprovalForAll(call.sender, call.from)
    /\ (Returned("set_approval_for_all") /\ call.sender # call.operator)
        => /\ result.kind = "Ok"
           /\ operator_approvals[call.sender][call.operator] = call.approved
    /\ (Returned("safe_transfer_from") /\ call.sender # call.from
           /\ committed.operator_approvals[call.from][call.sender]
           /\ call.to # Null /\ call.to # call.from
           /\ Old(call.id, call.from) >= call.value)
        => /\ result.kind = "Ok"
           /\ New(call.id, call.from) = Old(call.id, call.from) - call.value
           /\ New(call.id, call.to) = Old(call.id, call.to) + call.value

\* The balance `to` holds when the credit of a single update reads it.
CreditBase == IF call.from = call.to THEN Old(call.id, call.to) - call.value
              ELSE Old(call.id, call.to)

\* C5. Overflow is rejected, not wrapped: when an update (through
\* _update_single or safeTransferFrom) reaches the credit of `to` and
\* current + value exceeds the maximum Quantity, the operation fails and the
\* balance of `to` is not set to (current + value) mod 2^w.
C5_OverflowRejected ==
    (/\ pc = "returned"
     /\ call.op \in {"_update_single", "safe_transfer_from"}
     /\ call.op = "safe_transfer_from" => Authorized
     /\ call.to # Null
     /\ call.from # Null => Old(call.id, call.from) >= call.value
     /\ CreditBase + call.value > MaxQuantity)
        => /\ result.kind # "Ok"
           /\ New(call.id, call.to) # (CreditBase + call.value) % Modulus

\* C6. Self-approval rejection: setApprovalForAll with operator equal to the
\* caller fails with InvalidOperator(operator), whatever the state and whatever
\* `approved`, changes no approval entry (nor any balance) and emits no event.
C6_SelfApprovalRejected ==
    (Returned("set_approval_for_all") /\ call.operator = call.sender)
        => /\ result = ERC1155InvalidOperator(call.operator)
           /\ operator_approvals = committed.operator_approvals
           /\ balances = committed.balances
           /\ logs = <<>>

\* C6 witness: a rejected self-approval with approved = true, by an owner who
\* already has an approved operator.
C6_Witness ==
    /\ Returned("set_approval_for_all")
    /\ call.operator = call.sender
    /\ call.approved
    /\ result.kind = "InvalidOperator"
    /\ \E a \in Accounts : committed.operator_approvals[call.sender][a]

\* C7. Effect of a single transfer: an authorized safeTransferFrom(from, to,
\* id, value) with to non-null and balance(from, id) >= value sets
\* balance(from, id) to its old value minus value and balance(to, id) to its
\* old value plus value (from # to) and emits exactly one TransferSingle(caller,
\* from, to, id, value); with balance(from, id) < value it fails with
\* InsufficientBalance(from, balance, value, id) and changes no balance.
C7_SingleTransferEffect ==
    (Returned("safe_transfer_from") /\ Authorized /\ call.to # Null) =>
        IF Old(call.id, call.from) >= call.value
        THEN /\ result.kind = "Ok"
             /\ call.from # call.to =>
                    /\ New(call.id, call.from) = Old(call.id, call.from) - call.value
                    /\ New(call.id, call.to) = Old(call.id, call.to) + call.value
             /\ logs = <<TransferSingle(call.sender, call.from, call.to, call.id, call.value)>>
        ELSE /\ result = ERC1155InsufficientBalance(call.from, Old(call.id, call.from),
                                                    call.value, call.id)
             /\ balances = committed.balances
             /\ logs = <<>>

\* The balance of ids[i] the check of pair i of the returned batch sees: the
\* sender's balance before the call less the values of the earlier pairs of
\* the same id (a batch to oneself gives every debit back at once).
Seen(i) ==
    Old(call.ids[i], call.from)
        - (IF call.from = call.to THEN 0
           ELSE SumValues(call.ids, call.values, call.ids[i], i - 1))

\* The pairs of the returned batch whose check fails on what it sees.
Short == {i \in 1..Len(call.ids) : Seen(i) < call.values[i]}

FirstShort == CHOOSE i \in Short : \A j \in Short : i <= j

\* C8. Duplicate ids are applied sequentially and cumulatively: in a
\* safeBatchTransferFrom that reaches the balance update, the check of pair i
\* uses the sender's balance as left by the pairs before i.  The batch fails at
\* the first pair whose value exceeds that balance, with
\* InsufficientBalance(from, that balance, the value, the id), and leaves every
\* balance as before the call; with no such pair it succeeds and debits, for
\* each id, the sum of all the values given for it.  (Id twice with values
\* [1, 2] from a balance of 2 fails at the second pair with balance = 1,
\* needed = 2; with values [1, 1] it succeeds and debits 2.)
C8_DuplicateIdsCumulative ==
    (/\ Returned("safe_batch_transfer_from")
     /\ Authorized
     /\ call.to # Null
     /\ Len(call.ids) = Len(call.values))
        => IF Short # {}
           THEN /\ result = ERC1155InsufficientBalance(call.from, Seen(FirstShort),
                                                       call.values[FirstShort],
                                                       call.ids[FirstShort])
                /\ balances = committed.balances
           ELSE /\ result.kind = "Ok"
                /\ call.from # call.to =>
                       \A id \in Ids :
                           New(id, call.from)
                               = Old(id, call.from)
                                   - SumValues(call.ids, call.values, id, Len(call.ids))

\* C8 witness: a batch naming one id twice failed at the second occurrence,
\* although the balance before the call covered the second value alone.
C8_Witness ==
    /\ Returned("safe_batch_transfer_from")
    /\ Len(call.ids) = 2
    /\ Len(call.values) = 2
    /\ call.ids[1] = call.ids[2]
    /\ call.from # call.to
    /\ result.kind = "InsufficientBalance"
    /\ Old(call.ids[1], call.from) >= call.values[1]
    /\ Old(call.ids[1], call.from) >= call.values[2]
    /\ result.balance = Old(call.ids[1], call.from) - call.values[1]

\* Every balance entry other than (id, a) is as before the call.
OthersUnchanged(id, a) ==
    \A i \in Ids, b \in Address : (i # id \/ b # a) => New(i, b) = Old(i, b)

\* C9. Mint and burn through the update primitive: an update from the null
\* account to A for (id, value) succeeds whatever the approvals, increases
\* balance(A, id) by value and debits nobody; an update from A to the null
\* account decreases balance(A, id) by value, or fails with InsufficientBalance
\* when A holds less, and credits nobody.
C9_MintBurn ==
    Returned("_update_single") =>
        /\ (call.from = Null /\ call.to # Null) =>
               /\ result.kind = "Ok"
               /\ New(call.id, call.to) = Old(call.id, call.to) + call.value
               /\ OthersUnchanged(call.id, call.to)
        /\ (call.from # Null /\ call.to = Null) =>
               IF Old(call.id, call.from) >= call.value
               THEN /\ result.kind = "Ok"
                    /\ New(call.id, call.from) = Old(call.id, call.from) - call.value
                    /\ OthersUnchanged(call.id, call.from)
               ELSE /\ result = ERC1155InsufficientBalance(call.from, Old(call.id, call.from),
                                                           call.value, call.id)
                    /\ balances = committed.balances

\* C10. Validation precedence: a public transfer checks the authorization
\* first, then the null receiver, then (batch only) the ids / values lengths,
\* then the balances: an unauthorized call returns MissingApprovalForAll even
\* with a null `to` or vectors of different lengths, and an authorized batch
\* with a null `to` and different lengths returns InvalidReceiver.
C10_ValidationPrecedence ==
    PublicTransfer =>
        IF ~Authorized
        THEN result = ERC1155MissingApprovalForAll(call.sender, call.from)
        ELSE IF call.to = Null
        THEN result = ERC1155InvalidReceiver(Null)
        ELSE IF call.op = "safe_batch_transfer_from" /\ Len(call.ids) # Len(call.values)
        THEN result = ERC1155InvalidArrayLength(Len(call.ids), Len(call.values))
        ELSE result.kind \in {"Ok", "InsufficientBalance"}

\* C10 witness: an unauthorized batch with a null `to` and vectors of different
\* lengths has returned MissingApprovalForAll.
C10_Witness ==
    /\ Returned("safe_batch_transfer_from")
    /\ ~Authorized
    /\ call.to = Null
    /\ Len(call.ids) # Len(call.values)
    /\ result.kind = "MissingApprovalForAll"

\* C11. Null receiver is rejected at the public entrypoints: an authorized
\* safeTransferFrom or safeBatchTransferFrom whose `to` is the null account
\* fails with InvalidReceiver(null) and leaves every balance and approval as
\* it was, so that no public transfer burns: the total supply of an id never
\* decreases through these entrypoints.
C11_NullReceiverRejected ==
    PublicTransfer =>
        /\ (Authorized /\ call.to = Null) =>
               /\ result = ERC1155InvalidReceiver(Null)
               /\ balances = committed.balances
               /\ operator_approvals = committed.operator_approvals
               /\ logs = <<>>
        /\ \A id \in Ids : TotalSupply(balances, id) >= TotalSupply(committed.balances, id)

\* C12. Zero-value transfer: a safeTransferFrom with value = 0 that passes the
\* authorization and receiver checks succeeds whatever the sender's balance
\* (zero included), changes no balance and emits the TransferSingle event.
C12_ZeroValueTransfer ==
    (Returned("safe_transfer_from") /\ Authorized /\ call.to # Null /\ call.value = 0)
        => /\ result.kind = "Ok"
           /\ balances = committed.balances
           /\ logs = <<TransferSingle(call.sender, call.from, call.to, call.id, 0)>>

\* C12 witness: a zero-value transfer by a sender holding nothing of the id,
\* to a receiver holding the maximum, has succeeded.
C12_Witness ==
    /\ Returned("safe_transfer_from")
    /\ call.value = 0
    /\ call.from # call.to
    /\ Old(call.id, call.from) = 0
    /\ Old(call.id, call.to) = MaxQuantity
    /\ result.kind = "Ok"
    /\ logs # <<>>

\* C13. balanceOfBatch(accounts, ids): with two sequences of equal length n the
\* result has length n and result[i] = balanceOf(accounts[i], ids[i]) for every
\* i, in input order, and nothing is changed or logged; with different lengths
\* the call fails with InvalidArrayLength whose idsLength is the length of ids
\* and whose valuesLength is the length of accounts (two accounts and one id
\* give idsLength 1, valuesLength 2).
C13_BalanceOfBatch ==
    Returned("balance_of_batch") =>
        /\ balances = committed.balances
        /\ operator_approvals = committed.operator_approvals
        /\ logs = <<>>
        /\ IF Len(call.accounts) = Len(call.ids)
           THEN /\ result.kind = "Ok"
                /\ Len(result.value) = Len(call.accounts)
                /\ \A i \in 1..Len(call.accounts) :
                       result.value[i] = Old(call.ids[i], call.accounts[i])
           ELSE result = [kind |-> "InvalidArrayLength",
                          idsLength |-> Len(call.ids),
                          valuesLength |-> Len(call.accounts)]

\* C13 witness: balanceOfBatch with two accounts and one id has failed with
\* idsLength 1 and valuesLength 2.
C13_Witness ==
    /\ Returned("balance_of_batch")
    /\ Len(call.accounts) = 2
    /\ Len(call.ids) = 1
    /\ result.kind = "InvalidArrayLength"
    /\ result.idsLength = 1
    /\ result.valuesLength = 2

\* C14. Batch event emission: a successful safeBatchTransferFrom emits exactly
\* one event, TransferBatch(operator, from, to, ids, values) with the whole
\* batch, and the state that holds it has every pair applied (the sender's
\* balance of each id is down by all the values given for it); a
\* safeBatchTransferFrom that fails at any step (authorization, receiver,
\* lengths, or InsufficientBalance at any pair) emits no event.
C14_BatchEventEmission ==
    Returned("safe_batch_transfer_from") =>
        IF result.kind = "Ok"
        THEN /\ logs = <<TransferBatch(call.sender, call.from, call.to, call.ids, call.values)>>
             /\ call.from # call.to =>
                    \A id \in Ids :
                        New(id, call.from)
                            = Old(id, call.from)
                                - SumValues(call.ids, call.values, id, Len(call.ids))
        ELSE logs = <<>>

\* C14 witness: a successful batch of two pairs with non-zero values between
\* two accounts has logged one event.
C14_Witness ==
    /\ Returned("safe_batch_transfer_from")
    /\ result.kind = "Ok"
    /\ Len(call.ids) = 2
    /\ call.from # call.to
    /\ call.values[1] > 0
    /\ call.values[2] > 0
    /\ Len(logs) = 1

\* The same setApprovalForAll call made again on the storage the returned
\* one left.
SetApprovalAgain ==
    Entrypoint(set_approval_for_all(balances, operator_approvals, call.sender,
                                    call.operator, call.approved),
               Storage(balances, operator_approvals))

\* C15. setApprovalForAll is idempotent on the data but not on the events: for
\* owner # operator, a setApprovalForAll(operator, approved) by owner made
\* twice in a row leaves, the second time, the approvals as the first call
\* left them, with isApprovedForAll(owner, operator) = approved, and each of
\* the two calls emits one ApprovalForAll(owner, operator, approved) event.
C15_ApprovalIdempotent ==
    (Returned("set_approval_for_all") /\ call.sender # call.operator) =>
        LET ev == ApprovalForAll(call.sender, call.operator, call.approved)
        IN  /\ result.kind = "Ok"
            /\ is_approved_for_all(operator_approvals, call.sender, call.operator)
                   = call.approved
            /\ logs = <<ev>>
            /\ SetApprovalAgain.ret.kind = "Ok"
            /\ SetApprovalAgain.operator_approvals = operator_approvals
            /\ SetApprovalAgain.balances = balances
            /\ SetApprovalAgain.logs = <<ev>>
            /\ committed.operator_approvals[call.sender][call.operator] = call.approved
                   => operator_approvals = committed.operator_approvals

\* C15 witness: an owner has granted an operator the approval it already
\* held: the call changed no approval and logged the event again.
C15_Witness ==
    /\ Returned("set_approval_for_all")
    /\ call.sender # call.operator
    /\ call.approved
    /\ committed.operator_approvals[call.sender][call.operator]
    /\ operator_approvals = committed.operator_approvals
    /\ Len(logs) = 1

\* C16. Null-to-null update: an update primitive called with both `from` and
\* `to` the null account succeeds for any value and in any ledger (it reads no
\* balance), writes no balance entry and emits the transfer event:
\* _update_single its TransferSingle, _update_batch (given a value for every
\* id) its TransferBatch.
C16_NullToNullUpdate ==
    /\ (Returned("_update_single") /\ call.from = Null /\ call.to = Null)
        => /\ result.kind = "Ok"
           /\ balances = committed.balances
           /\ operator_approvals = committed.operator_approvals
           /\ logs = <<TransferSingle(call.sender, Null, Null, call.id, call.value)>>
    /\ (Returned("_update_batch") /\ call.from = Null /\ call.to = Null
           /\ Len(call.ids) <= Len(call.values))
        => /\ result.kind = "Ok"
           /\ balances = committed.balances
           /\ operator_approvals = committed.operator_approvals
           /\ logs = <<TransferBatch(call.sender, Null, Null, call.ids, call.values)>>

\* C16 witness: a null-to-null _update_single of the maximum value has
\* succeeded in a ledger where an account holds the maximum of that id.
C16_Witness ==
    /\ Returned("_update_single")
    /\ call.from = Null
    /\ call.to = Null
    /\ call.value = MaxQuantity
    /\ \E a \in Accounts : Old(call.id, a) = MaxQuantity
    /\ result.kind = "Ok"
    /\ Len(logs) = 1

\* The values the returned public transfer was asked to move.
CallValues == IF call.op = "safe_transfer_from" THEN <<call.value>> ELSE call.values

C18_RevocationDirectional ==
    /\ (Returned("set_approval_for_all") /\ call.sender # call.operator /\ ~call.approved)
        => ~is_approved_for_all(operator_approvals, call.sender, call.operator)
    /\ \A o \in Address, p \in Address :
           (~committed.operator_approvals[o][p] /\ operator_approvals[o][p])
               => /\ Returned("set_approval_for_all")
                  /\ call.sender = o
                  /\ call.operator = p
                  /\ call.approved
    /\ (PublicTransfer /\ call.sender # call.from
           /\ ~committed.operator_approvals[call.from][call.sender])
        => /\ result = ERC1155MissingApprovalForAll(call.sender, call.from)
           /\ balances = committed.balances
    /\ Returned("set_approval_for_all")
        => \A o \in Address, p \in Address :
               (o # call.sender \/ p # call.operator)
                   => operator_approvals[o][p] = committed.operator_approvals[o][p]

\* C18 witness: an owner has revoked an approval it had granted, while the
\* operator's own approval of the owner stays in place.
C18_Witness ==
    /\ Returned("set_approval_for_all")
    /\ ~call.approved
    /\ result.kind = "Ok"
    /\ committed.operator_approvals[call.sender][call.operator]
    /\ ~operator_approvals[call.sender][call.operator]
    /\ operator_approvals[call.operator][call.sender]

\* C19. In every reachable state isApprovedForAll(a, a) is false for every
\* account a; and an approval entry (owner, operator) is changed only by a
\* setApprovalForAll call whose caller is that owner and whose argument is
\* that operator: no caller grants or revokes approval over another account,
\* and no transfer or update changes any approval.
C19_ApprovalOwnership ==
    /\ \A a \in Address : ~is_approved_for_all(operator_approvals, a, a)
    /\ \A o \in Address, p \in Address :
           operator_approvals[o][p] # committed.operator_approvals[o][p]
               => /\ Returned("set_approval_for_all")
                  /\ call.sender = o
                  /\ call.operator = p
                  /\ result.kind = "Ok"
    /\ (pc = "returned" /\ call.op # "set_approval_for_all")
        => operator_approvals = committed.operator_approvals

\* C19 witness: an owner has granted an approval by its own call, after an
\* earlier grant by the other account.
C19_Witness ==
    /\ Returned("set_approval_for_all")
    /\ call.approved
    /\ ~committed.operator_approvals[call.sender][call.operator]
    /\ operator_approvals[call.sender][call.operator]
    /\ committed.operator_approvals[call.operator][call.sender]

\* The returned call is a transfer or an update, single or batch.
AnyTransfer ==
    pc = "returned"
        /\ call.op \in {"safe_transfer_from", "safe_batch_transfer_from",
                        "_update_single", "_update_batch"}

\* The ids the returned transfer names.
CallIds ==
    IF call.op \in {"safe_transfer_from", "_update_single"} THEN {call.id}
    ELSE {call.ids[i] : i \in 1..Len(call.ids)}

\* C20. Frame of the mutating operations: a transfer (single or batch,
\* successful or failed) changes no balance entry other than (id, from) and
\* (id, to) for the ids it names, and no approval entry; setApprovalForAll
\* changes no balance and no approval entry other than (caller, operator); a
\* transfer with from = to leaves balance(from, id) as it was and still
\* requires balance(from, id) >= value.
C20_Frame ==
    /\ AnyTransfer =>
           /\ \A id \in Ids, a \in Address :
                  New(id, a) # Old(id, a) => (id \in CallIds /\ a \in {call.from, call.to})
           /\ operator_approvals = committed.operator_approvals
    /\ Returned("set_approval_for_all") =>
           /\ balances = committed.balances
           /\ \A o \in Address, p \in Address :
                  operator_approvals[o][p] # committed.operator_approvals[o][p]
                      => (o = call.sender /\ p = call.operator)
    /\ (AnyTransfer /\ call.from = call.to) => balances = committed.balances
    /\ (Returned("safe_transfer_from") /\ Authorized /\ call.from = call.to) =>
           IF Old(call.id, call.from) >= call.value
           THEN result.kind = "Ok"
           ELSE result = ERC1155InsufficientBalance(call.from, Old(call.id, call.from),
                                                    call.value, call.id)

\* C20 witness: an account has transferred a non-zero value to itself, while
\* holding other balances too.
C20_Witness ==
    /\ Returned("safe_transfer_from")
    /\ call.from = call.to
    /\ call.from # Null
    /\ call.value > 0
    /\ result.kind = "Ok"
    /\ New(call.id, call.from) = Old(call.id, call.from)
    /\ \E id \in Ids : id # call.id /\ Old(id, call.from) > 0
====
